---- MODULE Spec2Model ----
(***************************************************************************)
(* The five recipe updaters of blooop-feedstock (scripts/update-*.py).     *)
(* Each run resolves a version, fetches per-platform metadata, rewrites    *)
(* the recipe text with regular-expression substitutions and writes it     *)
(* back.                                                                   *)
(*                                                                         *)
(* Text is modelled as follows.  A string whose characters matter          *)
(* (a version, a digest) is a sequence of one-character strings.  A recipe *)
(* is a sequence of lines; a line is a record                              *)
(*     [k |-> kind, s |-> selector, v |-> text, p |-> asset, t |-> path]   *)
(* and every regular expression of the scripts is translated to the lines  *)
(* it can match.  A digest has three characters standing for the 64 of a   *)
(* SHA-256 digest: the first two decide what Python's replacement template *)
(* does with it, the third names the platform it belongs to.               *)
(***************************************************************************)
EXTENDS Integers, Sequences, FiniteSets, TLC

VARIABLES
    script,   \* which updater is being run
    world,    \* what the upstream endpoints answer
    recipe,   \* the recipe file on disk: a sequence of lines, or Missing
    pc,       \* position in main(): idle, version, assets, update, done
    arg,      \* sys.argv[1] of the current run, or None
    version,  \* the version the resolver returned
    assets,   \* the release's asset list (NoAssets when the resolver gave None)
    sums,     \* per-platform digests resolved in this run ("" is Empty)
    exit,     \* exit code of the last finished run
    run,      \* number of runs started
    pre,      \* the recipe as it was when the current run started
    writes,   \* number of times this run wrote the recipe
    reqs,     \* number of upstream requests this run has issued
    late,     \* TRUE once a request is issued after the recipe was written
    hist      \* what the previous run was given and left behind

vars == <<script, world, recipe, pc, arg, version, assets, sums, exit, run,
          pre, writes, reqs, late, hist>>

----------------------------------------------------------------------------
(* Bounds *)

MaxBuild == 2
MaxRuns == 2

----------------------------------------------------------------------------
(* Strings *)

None == <<"None">>
Missing == <<"Missing">>
Empty == <<>>

Digits == {"0", "1", "2", "3", "4", "5", "6", "7", "8", "9"}
OctDigits == {"0", "1", "2", "3", "4", "5", "6", "7"}

\* str.replace(a, b) for single characters
ReplaceChar(str, a, b) ==
    [i \in 1..Len(str) |-> IF str[i] = a THEN b ELSE str[i]]

RECURSIVE LStrip(_, _)
\* str.lstrip(c)
LStrip(str, c) ==
    IF str # <<>> /\ Head(str) = c THEN LStrip(Tail(str), c) ELSE str

\* str.startswith(prefix)
StartsWith(str, prefix) ==
    /\ Len(prefix) <= Len(str)
    /\ SubSeq(str, 1, Len(prefix)) = prefix

\* bool(str) for an optional string
Truthy(str) == str # None /\ str # Empty

----------------------------------------------------------------------------
(* Python's replacement templates (re.sub's repl argument) *)

\* The template "\1" immediately followed by the text str, as
\* re._parser.parse_template reads it in a pattern with two groups: a digit
\* after "\1" is taken into the escape.  Three octal digits are a character
\* escape (group 1 is then not inserted); otherwise the two digits are a
\* group number, 10 or more, and re.sub raises re.error whether or not the
\* pattern matches anything.
TemplateBackslash1(str) ==
    IF str = <<>> \/ str[1] \notin Digits
    THEN [r |-> "ok", text |-> str]
    ELSE IF str[1] \in OctDigits /\ Len(str) >= 2 /\ str[2] \in OctDigits
         THEN [r |-> "oct",
               text |-> <<"\\", "1", str[1], str[2]>> \o SubSeq(str, 3, Len(str))]
         ELSE [r |-> "err", text |-> str]

\* The template "\g<1>" followed by str: the group reference is delimited.
TemplateG1(str) == [r |-> "ok", text |-> str]

----------------------------------------------------------------------------
(* Static tables *)

Claude == "claude-code"
Devpod == "devpod"
Prerelease == "devpod-prerelease"
Iterfzf == "iterfzf"
Ralph == "ralph-orchestrator"
Scripts == {Claude, Devpod, Prerelease, Iterfzf, Ralph}

\* conda platform keys, used as the platform identity in every script
AllPlats == <<"linux-64", "linux-aarch64", "osx-64", "osx-arm64", "win-64">>

\* The platforms of a script's table, in the table's order.
PlatSeq(sc) == IF sc = Ralph THEN SubSeq(AllPlats, 1, 4) ELSE AllPlats
Plats(sc) == {PlatSeq(sc)[i] : i \in 1..Len(PlatSeq(sc))}

\* selector_map / PLATFORM_MAPPING / PLATFORM_ASSETS keys
Selector(sc, plat) ==
    CASE plat = "linux-64" -> "linux and x86_64"
      [] plat = "linux-aarch64" -> "linux and aarch64"
      [] plat = "osx-64" -> "osx and x86_64"
      [] plat = "osx-arm64" -> "osx and arm64"
      [] plat = "win-64" -> IF sc = Iterfzf THEN "win and x86_64" ELSE "win"

\* The upstream name of a platform's artifact.
Asset(sc, plat) ==
    CASE sc = Claude ->
           (CASE plat = "linux-64" -> "linux-x64"
              [] plat = "linux-aarch64" -> "linux-arm64"
              [] plat = "osx-64" -> "darwin-x64"
              [] plat = "osx-arm64" -> "darwin-arm64"
              [] plat = "win-64" -> "win32-x64")
      [] sc \in {Devpod, Prerelease} ->
           (CASE plat = "linux-64" -> "devpod-linux-amd64"
              [] plat = "linux-aarch64" -> "devpod-linux-arm64"
              [] plat = "osx-64" -> "devpod-darwin-amd64"
              [] plat = "osx-arm64" -> "devpod-darwin-arm64"
              [] plat = "win-64" -> "devpod-windows-amd64.exe")
      [] sc = Iterfzf ->
           (CASE plat = "linux-64" -> "manylinux_1_2_x86_64.manylinux_2_17_x86_64"
              [] plat = "linux-aarch64" -> "manylinux_1_2_aarch64.manylinux_2_17_aarch64"
              [] plat = "osx-64" -> "macosx_10_7_x86_64.macosx_10_9_x86_64"
              [] plat = "osx-arm64" -> "macosx_11_0_arm64"
              [] plat = "win-64" -> "win_amd64")
      [] sc = Ralph ->
           (CASE plat = "linux-64" -> "ralph-cli-x86_64-unknown-linux-gnu.tar.xz"
              [] plat = "linux-aarch64" -> "ralph-cli-aarch64-unknown-linux-gnu.tar.xz"
              [] plat = "osx-64" -> "ralph-cli-x86_64-apple-darwin.tar.xz"
              [] plat = "osx-arm64" -> "ralph-cli-aarch64-apple-darwin.tar.xz")

----------------------------------------------------------------------------
(* Recipe documents *)

Line(k, s, v, p, t, n) == [k |-> k, s |-> s, v |-> v, p |-> p, t |-> t, n |-> n]

\* The character that names a platform inside a model digest.
PlatChar(plat) ==
    CASE plat = "linux-64" -> "1"
      [] plat = "linux-aarch64" -> "2"
      [] plat = "osx-64" -> "3"
      [] plat = "osx-arm64" -> "4"
      [] plat = "win-64" -> "5"

\* The digest a recipe holds for a platform before any run.
OldDigest(plat) == <<"f", "f", PlatChar(plat)>>

\* [\da-f]{64}, [a-f0-9]+ : the text is a digest
HexChars == Digits \cup {"a", "b", "c", "d", "e", "f"}
IsDigest(v) == Len(v) = 3 /\ \A i \in 1..3 : v[i] \in HexChars

\* The lines of one platform block, in the layout the script's patterns expect.
\*   devpod, devpod-prerelease:   url: .../download/v<ver>/<asset>
\*                                sha256: <hex>  # [<selector>]
\*   iterfzf:                     - url: https://.../iterfzf-<ver>-...<tag>.whl  # [<selector>]
\*                                sha256: <hex>  # [<selector>]
\*   claude-code:                 url: .../claude-code-releases/<ver>/<platform>/claude-code.tar.gz  # [<selector>]
\*                                sha256: <hex>
\*   ralph-orchestrator:          - if: <selector> / then: / url: ... / sha256: <hex>
Block(sc, plat, urlv) ==
    LET sel == Selector(sc, plat)
        url == Line("url", IF sc \in {Claude, Iterfzf} THEN sel ELSE "-", urlv,
                    Asset(sc, plat), IF sc = Iterfzf THEN "old" ELSE "-", 0)
        sha == Line("sha", IF sc \in {Devpod, Prerelease, Iterfzf} THEN sel ELSE "-",
                    OldDigest(plat), "-", "-", 0)
    IN  IF sc = Ralph
        THEN <<Line("if", sel, <<>>, "-", "-", 0), Line("then", "-", <<>>, "-", "-", 0),
               url, sha>>
        ELSE <<url, sha>>

RECURSIVE Blocks(_, _, _)
Blocks(sc, layout, urlv) ==
    IF layout = <<>> THEN <<>>
    ELSE Block(sc, Head(layout), urlv) \o Blocks(sc, Tail(layout), urlv)

\* A recipe: package block, source blocks, a comment, the build number and
\* (iterfzf) a build-script line naming the wheel file.
MkDoc(sc, cur, urlv, layout, n) ==
    <<Line("package", "-", <<>>, "-", "-", 0), Line("ver", "-", cur, "-", "-", 0)>>
    \o Blocks(sc, layout, urlv)
    \o <<Line("other", "-", <<>>, "-", "-", 0), Line("num", "-", <<>>, "-", "-", n)>>
    \o (IF sc = Iterfzf THEN <<Line("script", "-", cur, "-", "-", 0)>> ELSE <<>>)

----------------------------------------------------------------------------
(* The substitutions shared by the scripts *)

Indices(doc) == 1..Len(doc)

\* The least index satisfying a test, 0 when there is none.
MinOf(S) == IF S = {} THEN 0 ELSE CHOOSE i \in S : \A j \in S : i <= j

\* A line that  version: "[^"]+"  matches: a quoted, non-empty version.
IsVersionLine(l) == l.k = "ver" /\ l.v # <<>>

\* re.search(r'version: "([^"]+)"', recipe): the first quoted version anywhere
CurrentVersion(doc) ==
    LET i == MinOf({j \in Indices(doc) : IsVersionLine(doc[j])})
    IN  IF i = 0 THEN None ELSE doc[i].v

\* re.sub(r'version: "[^"]+"', ..., count=1): the first quoted version anywhere
SubVersionFirst(doc, new) ==
    LET i == MinOf({j \in Indices(doc) : IsVersionLine(doc[j])})
    IN  [j \in Indices(doc) |-> IF j = i THEN [doc[j] EXCEPT !.v = new] ELSE doc[j]]

\* re.sub(r'(package:.*?version:\s*)"[^"]+"', ..., count=1, flags=re.DOTALL):
\* the first quoted version after the first "package:"
SubVersionPackage(doc, new) ==
    LET p == MinOf({j \in Indices(doc) : doc[j].k = "package"})
        i == IF p = 0 THEN 0
             ELSE MinOf({j \in Indices(doc) : j > p /\ IsVersionLine(doc[j])})
    IN  [j \in Indices(doc) |-> IF j = i THEN [doc[j] EXCEPT !.v = new] ELSE doc[j]]

\* re.sub(r'number: \d+', 'number: 0', recipe)
ResetNumber(doc) ==
    [j \in Indices(doc) |-> IF doc[j].k = "num" THEN [doc[j] EXCEPT !.n = 0] ELSE doc[j]]

\* A version used as a regular expression without re.escape, matched against
\* a URL's version segment: "." matches any character.
RegexVersionMatch(pattern, text) ==
    /\ Len(pattern) = Len(text)
    /\ \A i \in 1..Len(pattern) : pattern[i] = "." \/ pattern[i] = text[i]

\* What a substitution leaves of a matched line whose replacement template
\* turned into a character escape: the first group is gone.
Corrupted(l, text) == [l EXCEPT !.k = "corrupt", !.v = text]

\* sha256 line carrying its own selector comment:
\*   (sha256:\s*)[\da-f]{64}(\s*#\s*\[<selector>\])
SubShaBySelector(doc, sel, tmpl) ==
    [j \in Indices(doc) |->
        IF doc[j].k = "sha" /\ doc[j].s = sel /\ IsDigest(doc[j].v)
        THEN IF tmpl.r = "oct" THEN Corrupted(doc[j], tmpl.text)
             ELSE [doc[j] EXCEPT !.v = tmpl.text]
        ELSE doc[j]]

----------------------------------------------------------------------------
(* update-devpod.py and update-devpod-prerelease.py *)

\* The replacement template of a substitution: update-devpod.py writes "\1"
\* before the inserted text, update-devpod-prerelease.py writes "\g<1>".
Template(sc, str) ==
    IF sc = Devpod THEN TemplateBackslash1(str) ELSE TemplateG1(str)

\* (https://github.com/skevetter/devpod/releases/download/v)<current>(/)
\* update-devpod.py puts the current version into the pattern as it is,
\* update-devpod-prerelease.py through re.escape.
SubUrlsDevpod(sc, doc, cur, tmpl) ==
    [j \in Indices(doc) |->
        IF /\ doc[j].k = "url"
           /\ IF sc = Devpod THEN RegexVersionMatch(cur, doc[j].v) ELSE doc[j].v = cur
        THEN IF tmpl.r = "oct" THEN Corrupted(doc[j], tmpl.text)
             ELSE [doc[j] EXCEPT !.v = tmpl.text]
        ELSE doc[j]]

RECURSIVE SubChecksums(_, _, _, _)
\* for selector, platform in selector_map.items(): ... re.sub(pattern, ...)
\* st is [ok, doc]; ok turns FALSE when re.sub raises re.error.
SubChecksums(sc, st, plats, digests) ==
    IF plats = <<>> \/ ~st.ok THEN st
    ELSE LET p == Head(plats)
             t == Template(sc, digests[p])
             next == IF ~Truthy(digests[p]) THEN st
                     ELSE IF t.r = "err" THEN [ok |-> FALSE, doc |-> st.doc]
                     ELSE [ok |-> TRUE,
                           doc |-> SubShaBySelector(st.doc, Selector(sc, p), t)]
         IN  SubChecksums(sc, next, Tail(plats), digests)

\* update_recipe of update-devpod.py
UpdateDevpod(doc, ver, digests) ==
    LET cur == CurrentVersion(doc)
        d1 == SubVersionPackage(doc, ver)
        tv == Template(Devpod, ver)
        s2 == IF cur = None THEN [ok |-> TRUE, doc |-> d1]
              ELSE IF tv.r = "err" THEN [ok |-> FALSE, doc |-> d1]
              ELSE [ok |-> TRUE, doc |-> SubUrlsDevpod(Devpod, d1, cur, tv)]
        s3 == SubChecksums(Devpod, s2, PlatSeq(Devpod), digests)
    IN  IF ~s3.ok THEN s3
        ELSE [ok |-> TRUE, doc |-> IF cur # ver THEN ResetNumber(s3.doc) ELSE s3.doc]

\* version.replace("-", "_")
PkgVersion(ver) == ReplaceChar(ver, "-", "_")

\* current_pkg_version.replace("_", "-")
UrlVersion(pkg) == ReplaceChar(pkg, "_", "-")

\* update_recipe of update-devpod-prerelease.py
UpdatePrerelease(doc, ver, digests) ==
    LET pkg == PkgVersion(ver)
        curPkg == CurrentVersion(doc)
        curUrl == IF Truthy(curPkg) THEN UrlVersion(curPkg) ELSE None
        d1 == SubVersionPackage(doc, pkg)
        d2 == IF Truthy(curUrl)
              THEN SubUrlsDevpod(Prerelease, d1, curUrl, Template(Prerelease, ver))
              ELSE d1
        s3 == SubChecksums(Prerelease, [ok |-> TRUE, doc |-> d2], PlatSeq(Prerelease),
                           digests)
    IN  [ok |-> TRUE, doc |-> IF curPkg # pkg THEN ResetNumber(s3.doc) ELSE s3.doc]

----------------------------------------------------------------------------
(* update-claude-code.py *)

\* (.../claude-code-releases/)[^/]+(/win32-x64/claude-code\.zip) for win32-x64,
\* (.../claude-code-releases/)[^/]+(/[^/]+/claude-code\.tar\.gz) for the others:
\* the second pattern names no platform.
SubUrlsClaude(doc, plat, ver) ==
    [j \in Indices(doc) |->
        IF /\ doc[j].k = "url"
           /\ ((doc[j].p = "win32-x64") <=> (plat = "win-64"))
        THEN [doc[j] EXCEPT !.v = ver]
        ELSE doc[j]]

\* (# \[<selector>\]\s*\n\s*sha256:\s*)[a-f0-9]+ : a sha256 line right after a
\* line that ends with the selector comment
SubShaAfterSelector(doc, sel, digest) ==
    [j \in Indices(doc) |->
        IF /\ doc[j].k = "sha" /\ IsDigest(doc[j].v)
           /\ j > 1 /\ doc[j - 1].s = sel
        THEN [doc[j] EXCEPT !.v = digest]
        ELSE doc[j]]

RECURSIVE SubPlatformsClaude(_, _, _, _)
\* for platform, platform_data in platforms_data.items(): ...
SubPlatformsClaude(doc, plats, ver, digests) ==
    IF plats = <<>> THEN doc
    ELSE LET p == Head(plats)
             d == IF Truthy(digests[p])
                  THEN SubShaAfterSelector(SubUrlsClaude(doc, p, ver),
                                           Selector(Claude, p), digests[p])
                  ELSE doc
         IN  SubPlatformsClaude(d, Tail(plats), ver, digests)

\* update_recipe of update-claude-code.py
UpdateClaude(doc, ver, digests) ==
    LET d1 == SubVersionFirst(doc, ver)
        d2 == SubPlatformsClaude(d1, PlatSeq(Claude), ver, digests)
    IN  [ok |-> TRUE, doc |-> ResetNumber(d2)]

----------------------------------------------------------------------------
(* update-ralph-orchestrator.py *)

\* (https://github\.com/mikeyobrien/ralph-orchestrator/releases/download/v)[^/]+/
SubUrlsRalph(doc, ver) ==
    [j \in Indices(doc) |-> IF doc[j].k = "url" THEN [doc[j] EXCEPT !.v = ver] ELSE doc[j]]

\* (if: <condition>\s+then:\s+url: [^\n]+\s+sha256: )[a-f0-9]+
SubShaInBlock(doc, cond, digest) ==
    [j \in Indices(doc) |->
        IF /\ doc[j].k = "sha" /\ IsDigest(doc[j].v)
           /\ j > 3
           /\ doc[j - 1].k = "url" /\ doc[j - 2].k = "then"
           /\ doc[j - 3].k = "if" /\ doc[j - 3].s = cond
        THEN [doc[j] EXCEPT !.v = digest]
        ELSE doc[j]]

RECURSIVE SubConditionsRalph(_, _, _)
\* for condition, sha256 in checksums.items(): ...
SubConditionsRalph(doc, plats, digests) ==
    IF plats = <<>> THEN doc
    ELSE LET p == Head(plats)
             d == IF digests[p] # None
                  THEN SubShaInBlock(doc, Selector(Ralph, p), digests[p])
                  ELSE doc
         IN  SubConditionsRalph(d, Tail(plats), digests)

\* update_recipe of update-ralph-orchestrator.py
UpdateRalph(doc, ver, digests) ==
    LET cur == CurrentVersion(doc)
        d1 == SubVersionFirst(doc, ver)
        d2 == SubUrlsRalph(d1, ver)
        d3 == SubConditionsRalph(d2, PlatSeq(Ralph), digests)
    IN  [ok |-> TRUE, doc |-> IF cur # ver THEN ResetNumber(d3) ELSE d3]

----------------------------------------------------------------------------
(* update-iterfzf.py *)

\* (-\s*url:\s*)https://[^\s]+(\s*#\s*\[<selector>\]) replaced by the wheel's URL,
\* whose file name is iterfzf-<version>-...-<platform tag>.whl
SubUrlBySelector(doc, sel, wheelVersion) ==
    [j \in Indices(doc) |->
        IF doc[j].k = "url" /\ doc[j].s = sel
        THEN [doc[j] EXCEPT !.v = wheelVersion, !.t = "new"]
        ELSE doc[j]]

RECURSIVE SubWheels(_, _, _, _)
\* for selector, conda_platform in selector_map.items(): ...
SubWheels(doc, plats, ver, digests) ==
    IF plats = <<>> THEN doc
    ELSE LET p == Head(plats)
             sel == Selector(Iterfzf, p)
             d == IF digests[p] # None
                  THEN SubShaBySelector(SubUrlBySelector(doc, sel, ver), sel,
                                        TemplateG1(digests[p]))
                  ELSE doc
         IN  SubWheels(d, Tail(plats), ver, digests)

\* recipe.replace(f"iterfzf-{current_version}", f"iterfzf-{version}"): the text
\* "iterfzf-" is followed by a version in wheel URLs and in build-script lines.
ReplaceWheelNames(doc, cur, ver) ==
    [j \in Indices(doc) |->
        IF doc[j].k \in {"url", "script"} /\ StartsWith(doc[j].v, cur)
        THEN [doc[j] EXCEPT !.v = ver \o SubSeq(doc[j].v, Len(cur) + 1, Len(doc[j].v))]
        ELSE doc[j]]

\* update_recipe of update-iterfzf.py
UpdateIterfzf(doc, ver, digests) ==
    LET cur == CurrentVersion(doc)
        d1 == SubVersionPackage(doc, ver)
        d2 == SubWheels(d1, PlatSeq(Iterfzf), ver, digests)
        d3 == IF Truthy(cur) THEN ReplaceWheelNames(d2, cur, ver) ELSE d2
    IN  [ok |-> TRUE, doc |-> IF cur # ver THEN ResetNumber(d3) ELSE d3]

\* update_recipe of the script sc: [ok, doc], ok FALSE when it raised
UpdateRecipeText(sc, doc, ver, digests) ==
    CASE sc = Claude -> UpdateClaude(doc, ver, digests)
      [] sc = Devpod -> UpdateDevpod(doc, ver, digests)
      [] sc = Prerelease -> UpdatePrerelease(doc, ver, digests)
      [] sc = Iterfzf -> UpdateIterfzf(doc, ver, digests)
      [] sc = Ralph -> UpdateRalph(doc, ver, digests)

----------------------------------------------------------------------------
(* The upstream endpoints *)

\* A world is what the endpoints answer during a behaviour:
\*   verReq   the request that resolves the version (stable pointer, release,
\*            releases list, package index): "ok" or "fail"
\*   metaReq  the second request of a run (claude-code: the manifest;
\*            devpod-prerelease: the fallback's releases list): "ok" or "fail"
\*   latest   the latest version upstream (GitHub tags it "v" + latest)
\*   rels     devpod-prerelease: the releases list, newest first
\*   rels2    devpod-prerelease: the list the fallback's request is answered
\*   st       per platform: "ok", "absent" (not in the release, manifest or
\*            index) or "fail" (listed, but its download or .sha256 fetch errors)
\*   style    the first characters of the digests upstream serves
NewDigest(style, plat) ==
    CASE style = "letter" -> <<"a", "b", PlatChar(plat)>>
      [] style = "digit" -> <<"1", "b", PlatChar(plat)>>
      [] style = "octal" -> <<"1", "2", PlatChar(plat)>>

\* The names in a release's asset list when it publishes assets at all.
AssetNames(sc, w) ==
    {Asset(sc, p) : p \in {q \in Plats(sc) : w.st[q] # "absent"}} \cup {"checksums.txt"}

NoAssets == {"None"}

\* tag_name.lstrip("v")
TagVersion(tag) == LStrip(tag, "v")

Failed(n) == [exit |-> 1, ver |-> None, assets |-> NoAssets, n |-> n]
Resolved(ver, as, n) == [exit |-> 0, ver |-> ver, assets |-> as, n |-> n]

\* get_version of update-claude-code.py
GetVersionClaude(a, w) ==
    IF Truthy(a) THEN Resolved(a, NoAssets, 0)
    ELSE IF w.verReq = "fail" THEN Failed(1)
    ELSE Resolved(w.latest, NoAssets, 1)

\* a resolver that asks upstream whatever its argument
GetVersionDevpodUpstream(a, w) ==
    IF w.verReq = "fail" THEN Failed(1)
    ELSE Resolved(TagVersion(<<"v">> \o w.latest), AssetNames(Devpod, w), 1)

\* get_version and get_latest_release of update-devpod.py
GetVersionDevpod(a, w) ==
    IF Truthy(a) THEN Resolved(a, NoAssets, 0)
    ELSE IF w.verReq = "fail" THEN Failed(1)
    ELSE Resolved(TagVersion(<<"v">> \o w.latest), AssetNames(Devpod, w), 1)

\* a selection that looks at the prerelease flag alone
IsPrereleaseOnly(e) == e.pre

\* release.get("prerelease") and release.get("assets")
IsPrereleaseWithAssets(e) == e.pre /\ e.has

ReleaseAssets(e, w) == IF e.has THEN AssetNames(Prerelease, w) ELSE {}

\* get_latest_prerelease: the first prerelease with assets, or (None, None)
GetLatestPrerelease(w) ==
    LET i == MinOf({j \in 1..Len(w.rels) : IsPrereleaseWithAssets(w.rels[j])})
    IN  IF i = 0 THEN Resolved(None, NoAssets, 1)
        ELSE Resolved(TagVersion(<<"v">> \o w.rels[i].v), ReleaseAssets(w.rels[i], w), 1)

\* a fallback that reads the list already fetched instead of asking again
GetLatestReleaseFallbackReuse(w) ==
    IF w.rels = <<>> THEN Resolved(None, NoAssets, 0)
    ELSE Resolved(TagVersion(<<"v">> \o w.rels[1].v), ReleaseAssets(w.rels[1], w), 0)

\* get_latest_release_fallback: a second request of the same endpoint
GetLatestReleaseFallback(w) ==
    IF w.metaReq = "fail" THEN Failed(1)
    ELSE IF w.rels2 = <<>> THEN Resolved(None, NoAssets, 1)
    ELSE Resolved(TagVersion(<<"v">> \o w.rels2[1].v), ReleaseAssets(w.rels2[1], w), 1)

\* get_version of update-devpod-prerelease.py, and main's "if not version"
GetVersionPrerelease(a, w) ==
    IF Truthy(a) THEN Resolved(a, NoAssets, 0)
    ELSE IF w.verReq = "fail" THEN Failed(1)
    ELSE LET first == GetLatestPrerelease(w)
             second == GetLatestReleaseFallback(w)
         IN  IF Truthy(first.ver) /\ first.assets # NoAssets
             THEN first
             ELSE IF second.exit = 0 /\ ~Truthy(second.ver)
                  THEN Failed(first.n + second.n)
                  ELSE [second EXCEPT !.n = first.n + second.n]

\* main of update-iterfzf.py, lines 116-129: one request either way
GetVersionIterfzf(a, w) ==
    IF w.verReq = "fail" THEN Failed(1)
    ELSE Resolved(IF a # None THEN a ELSE w.latest, NoAssets, 1)

\* get_latest_release of update-ralph-orchestrator.py.  The tags endpoint
\* answers with the release of the tag that was asked for.
GetVersionRalph(a, w) ==
    LET tag == IF Truthy(a)
               THEN (IF StartsWith(a, <<"v">>) THEN a ELSE <<"v">> \o a)
               ELSE <<"v">> \o w.latest
    IN  IF w.verReq = "fail" THEN Failed(1)
        ELSE Resolved(TagVersion(tag), AssetNames(Ralph, w), 1)

ResolveVersion(sc, a, w) ==
    CASE sc = Claude -> GetVersionClaude(a, w)
      [] sc = Devpod -> GetVersionDevpod(a, w)
      [] sc = Prerelease -> GetVersionPrerelease(a, w)
      [] sc = Iterfzf -> GetVersionIterfzf(a, w)
      [] sc = Ralph -> GetVersionRalph(a, w)

----------------------------------------------------------------------------
(* Per-platform digests *)

NoSums(sc) == [p \in Plats(sc) |-> None]

Listed(sc, p, as) == as = NoAssets \/ Asset(sc, p) \in as

\* get_checksums and download_and_hash of update-devpod.py and
\* update-devpod-prerelease.py: "" for a binary that is not listed or whose
\* download fails.  With assets None every URL is built and requested.
GetChecksums(sc, as, w) ==
    [exit |-> 0,
     sums |-> [p \in Plats(sc) |->
                 IF Listed(sc, p, as) /\ w.st[p] = "ok"
                 THEN NewDigest(w.style, p) ELSE Empty],
     n |-> Cardinality({p \in Plats(sc) : Listed(sc, p, as)})]

\* a main that goes on to update_recipe with no checksum at all
GetSha256sUnchecked(as, w) ==
    [exit |-> 0,
     sums |-> [p \in Plats(Ralph) |->
                 IF Asset(Ralph, p) \in as /\ w.st[p] = "ok"
                 THEN NewDigest(w.style, p) ELSE None],
     n |-> Cardinality({p \in Plats(Ralph) : Asset(Ralph, p) \in as})]

\* main of update-ralph-orchestrator.py, lines 117-131, with get_sha256: an
\* asset that is not listed is skipped, a .sha256 fetch that fails exits, and
\* so does an empty result.
GetSha256s(as, w) ==
    LET listed == {p \in Plats(Ralph) : Asset(Ralph, p) \in as}
        bad == {i \in 1..Len(PlatSeq(Ralph)) :
                   PlatSeq(Ralph)[i] \in listed /\ w.st[PlatSeq(Ralph)[i]] = "fail"}
        before(i) == {p \in listed : \E j \in 1..i : PlatSeq(Ralph)[j] = p}
    IN  IF bad # {}
        THEN [exit |-> 1, sums |-> NoSums(Ralph), n |-> Cardinality(before(MinOf(bad)))]
        ELSE [exit |-> IF listed = {} THEN 1 ELSE 0,
              sums |-> [p \in Plats(Ralph) |->
                          IF p \in listed THEN NewDigest(w.style, p) ELSE None],
              n |-> Cardinality(listed)]

\* a manifest fetch that goes on with no checksum when the request fails
GetManifestSwallow(w) ==
    [exit |-> 0,
     sums |-> [p \in Plats(Claude) |->
                 IF w.metaReq = "ok" /\ w.st[p] = "ok" THEN NewDigest(w.style, p) ELSE None],
     n |-> 1]

\* get_manifest of update-claude-code.py and platform_data.get("checksum")
GetManifest(w) ==
    IF w.metaReq = "fail" THEN [exit |-> 1, sums |-> NoSums(Claude), n |-> 1]
    ELSE [exit |-> 0,
          sums |-> [p \in Plats(Claude) |->
                      IF w.st[p] = "ok" THEN NewDigest(w.style, p) ELSE None],
          n |-> 1]

\* get_wheel_info of update-iterfzf.py over data["urls"]: the index entry whose
\* file name holds the platform tag, None when there is none
GetWheelInfo(w) ==
    [exit |-> 0,
     sums |-> [p \in Plats(Iterfzf) |->
                 IF w.st[p] = "ok" THEN NewDigest(w.style, p) ELSE None],
     n |-> 0]

ResolveSums(sc, as, w) ==
    CASE sc = Claude -> GetManifest(w)
      [] sc \in {Devpod, Prerelease} -> GetChecksums(sc, as, w)
      [] sc = Iterfzf -> GetWheelInfo(w)
      [] sc = Ralph -> GetSha256s(as, w)

----------------------------------------------------------------------------
(* Initial states *)

V10 == <<"1", ".", "0">>
V101 == <<"1", ".", "0", ".", "1">>
Vv10 == <<"v", "1", ".", "0">>
V03h == <<"0", ".", "3", "-", "b">>
V03u == <<"0", ".", "3", "_", "b">>

\* sys.argv[1], when given
Args == {None, V10, V101, Vv10, V03h, V03u}

\* the version a recipe starts with: its version field reads 1.0, or 0.3_b
\* in devpod-prerelease, whose URLs then read v0.3-b
StartVersion(sc) == IF sc = Prerelease THEN V03u ELSE V10

\* the order of the platform blocks in a recipe
Layouts(sc) ==
    IF sc = Ralph
    THEN {<<"osx-arm64", "osx-64">>, <<"linux-64", "linux-aarch64", "osx-64">>}
    ELSE {<<"osx-arm64", "osx-64">>, <<"linux-64", "linux-aarch64", "win-64">>}

Recipes(sc) ==
    {MkDoc(sc, StartVersion(sc),
           IF sc = Prerelease THEN UrlVersion(StartVersion(sc)) ELSE StartVersion(sc),
           lay, n) : lay \in Layouts(sc), n \in 0..MaxBuild}
    \cup {Missing}

\* every platform resolves, or one does not, or none is published
Statuses(sc) ==
    {[p \in Plats(sc) |-> "ok"], [p \in Plats(sc) |-> "absent"]}
    \cup {[p \in Plats(sc) |-> IF p = q THEN "absent" ELSE "ok"] :
             q \in {"osx-64", "linux-aarch64"}}
    \cup (IF sc \in {Claude, Iterfzf} THEN {}
          ELSE {[p \in Plats(sc) |-> IF p = "osx-64" THEN "fail" ELSE "ok"]})

Release(v, isPre, has) == [v |-> v, pre |-> isPre, has |-> has]

\* releases lists: none, a prerelease with assets, none that qualifies
ReleaseLists ==
    {<<>>,
     <<Release(V101, FALSE, TRUE), Release(V03h, TRUE, TRUE)>>,
     <<Release(V101, FALSE, TRUE), Release(V03h, TRUE, FALSE)>>}

\* every releases list of at most two entries, 1.0.1 listed before 0.3-b
WideReleaseLists ==
    {<<>>}
    \cup {<<Release(V101, a, b)>> : a \in BOOLEAN, b \in BOOLEAN}
    \cup {<<Release(V101, a, b), Release(V03h, c, d)>> :
             a \in BOOLEAN, b \in BOOLEAN, c \in BOOLEAN, d \in BOOLEAN}

\* what the fallback's request is answered when the list has changed meanwhile
ChangedReleaseLists == {<<>>, <<Release(V10, FALSE, FALSE)>>}

World(x) ==
    [verReq |-> x[1], metaReq |-> x[2], latest |-> V101, rels |-> x[3][1],
     rels2 |-> x[3][2], st |-> x[4], style |-> x[5]]

Worlds(sc) ==
    {World(x) : x \in
        {"ok", "fail"}
        \X (IF sc \in {Claude, Prerelease} THEN {"ok", "fail"} ELSE {"ok"})
        \X (IF sc = Prerelease THEN {<<r, r>> : r \in ReleaseLists} ELSE {<<<<>>, <<>>>>})
        \X Statuses(sc)
        \X (IF sc = Devpod THEN {"letter", "digit", "octal"} ELSE {"letter"})}

\* devpod-prerelease against every short releases list, the fallback's request
\* answered with the same list or with another
WideWorlds ==
    {World(x) : x \in
        {"ok", "fail"} \X {"ok", "fail"}
        \X (UNION {{<<r, r2>> : r2 \in {r} \cup ChangedReleaseLists} :
                       r \in WideReleaseLists})
        \X {[p \in Plats(Prerelease) |-> "ok"]}
        \X {"letter"}}

NoHist == [arg |-> None, exit |-> 0, ver |-> None, ran |-> FALSE]

InitRun ==
    /\ pc = "idle"
    /\ arg = None
    /\ version = None
    /\ assets = NoAssets
    /\ sums = NoSums(script)
    /\ exit = 0
    /\ run = 0
    /\ pre = recipe
    /\ writes = 0
    /\ reqs = 0
    /\ late = FALSE
    /\ hist = NoHist

Init ==
    /\ script \in Scripts
    /\ world \in Worlds(script)
    /\ recipe \in Recipes(script)
    /\ InitRun

InitPre ==
    /\ script = Prerelease
    /\ world \in WideWorlds
    /\ recipe \in {MkDoc(Prerelease, V03u, V03h, <<"osx-arm64", "osx-64">>, MaxBuild), Missing}
    /\ InitRun

\* a quoted version field of a context block, standing before "package:"
ContextLine == Line("ver", "-", V10, "-", "-", 0)

RecipesWithContext(sc) == {<<ContextLine>> \o d : d \in Recipes(sc) \ {Missing}}

InitCtx ==
    /\ script \in {Devpod, Prerelease, Iterfzf}
    /\ world \in Worlds(script)
    /\ recipe \in Recipes(script) \cup RecipesWithContext(script)
    /\ InitRun

----------------------------------------------------------------------------
(* Actions *)

\* The script is started, with or without a version argument.
Start(a) ==
    /\ pc \in {"idle", "done"}
    /\ run < MaxRuns
    /\ hist' = IF run = 0 THEN NoHist
               ELSE [arg |-> arg, exit |-> exit, ver |-> version, ran |-> TRUE]
    /\ arg' = a
    /\ pc' = "version"
    /\ run' = run + 1
    /\ pre' = recipe
    /\ version' = None
    /\ assets' = NoAssets
    /\ sums' = NoSums(script)
    /\ writes' = 0
    /\ reqs' = 0
    /\ late' = FALSE
    /\ UNCHANGED <<script, world, recipe, exit>>

\* main's call of the version resolver
GetVersion ==
    /\ pc = "version"
    /\ LET r == ResolveVersion(script, arg, world)
       IN  /\ version' = r.ver
           /\ assets' = r.assets
           /\ reqs' = reqs + r.n
           /\ late' = (late \/ (r.n > 0 /\ writes > 0))
           /\ IF r.exit # 0
              THEN pc' = "done" /\ exit' = r.exit
              ELSE pc' = "assets" /\ exit' = exit
    /\ UNCHANGED <<script, world, recipe, arg, sums, run, pre, writes, hist>>

\* main's resolution of the per-platform digests
GetAssets ==
    /\ pc = "assets"
    /\ LET r == ResolveSums(script, assets, world)
       IN  /\ sums' = r.sums
           /\ reqs' = reqs + r.n
           /\ late' = (late \/ (r.n > 0 /\ writes > 0))
           /\ IF r.exit # 0
              THEN pc' = "done" /\ exit' = r.exit
              ELSE pc' = "update" /\ exit' = exit
    /\ UNCHANGED <<script, world, recipe, arg, version, assets, run, pre, writes, hist>>

\* update_recipe: exit when the file is missing, die when re.sub raises,
\* otherwise write the rewritten text once
UpdateRecipe ==
    /\ pc = "update"
    /\ pc' = "done"
    /\ IF recipe = Missing
       THEN exit' = 1 /\ UNCHANGED <<recipe, writes>>
       ELSE LET r == UpdateRecipeText(script, recipe, version, sums)
            IN  IF r.ok
                THEN recipe' = r.doc /\ writes' = writes + 1 /\ exit' = 0
                ELSE exit' = 1 /\ UNCHANGED <<recipe, writes>>
    /\ UNCHANGED <<script, world, arg, version, assets, sums, run, pre, reqs, late, hist>>

Next ==
    \/ \E a \in Args : Start(a)
    \/ GetVersion
    \/ GetAssets
    \/ UpdateRecipe

Spec == Init /\ [][Next]_vars

\* devpod-prerelease alone, against every short releases list
SpecPre == InitPre /\ [][Next]_vars

\* devpod, devpod-prerelease and iterfzf, on recipes with and without a context
\* block before the package block
SpecCtx == InitCtx /\ [][Next]_vars

----------------------------------------------------------------------------
(* What a recipe says *)

\* the number of the build-number line
BuildNumber(doc) ==
    LET i == MinOf({j \in Indices(doc) : doc[j].k = "num"}) IN doc[i].n

\* the version field of the package block
VersionField(doc) ==
    LET i == MinOf({j \in Indices(doc) : doc[j].k = "ver"}) IN doc[i].v

\* a run has ended and has written the recipe
Wrote == pc = "done" /\ writes > 0

----------------------------------------------------------------------------
(* C1 *)

\* C1: in every script, once update_recipe has written the recipe, the build
\* number is 0 if the version field differs from the one the recipe held before
\* the run and is the number it was before the run if the version is the same.
C1_BuildNumberFollowsVersion ==
    Wrote =>
        IF VersionField(recipe) # VersionField(pre)
        THEN BuildNumber(recipe) = 0
        ELSE BuildNumber(recipe) = BuildNumber(pre)

\* The same statement of the four scripts other than claude-code.
C1_ExceptClaude == script # Claude => C1_BuildNumberFollowsVersion

----------------------------------------------------------------------------
(* C2 *)

\* the run that has just ended repeated the previous run's explicit version
Repeated == pc = "done" /\ hist.ran /\ arg # None /\ arg = hist.arg

\* C2: in every script, when a run is repeated with the same explicit version
\* against the same upstream answers, the second run leaves the recipe as the
\* first run left it.
C2_Idempotent == Repeated => recipe = pre

\* The same statement of the four scripts other than iterfzf.
C2_ExceptIterfzf == script # Iterfzf => C2_Idempotent

----------------------------------------------------------------------------
(* Platform blocks *)

\* the platform of a script whose selector is sel, "-" when there is none
PlatOfSelector(sc, sel) ==
    IF \E p \in Plats(sc) : Selector(sc, p) = sel
    THEN CHOOSE p \in Plats(sc) : Selector(sc, p) = sel
    ELSE "-"

\* the platform whose block the line j of a recipe belongs to: the selector
\* is on the line itself, on the line before (claude-code's sha256 line) or on
\* the "if:" line of the block (ralph-orchestrator)
BlockPlat(sc, doc, j) ==
    CASE sc = Ralph ->
           LET i == IF doc[j].k = "url" THEN j - 2 ELSE j - 3
           IN  IF i >= 1 /\ doc[i].k = "if" THEN PlatOfSelector(sc, doc[i].s) ELSE "-"
      [] sc = Claude ->
           PlatOfSelector(sc, IF doc[j].k = "url" THEN doc[j].s ELSE doc[j - 1].s)
      [] sc = Iterfzf -> PlatOfSelector(sc, doc[j].s)
      [] OTHER ->
           PlatOfSelector(sc, IF doc[j].k = "sha" THEN doc[j].s ELSE doc[j + 1].s)

\* the lines of the platform blocks of the recipe the run started from
UrlLines == {j \in Indices(pre) : pre[j].k = "url"}
ShaLines == {j \in Indices(pre) : pre[j].k = "sha"}

\* the version a rewritten URL of this run carries
NewUrlVersion == version

\* the resolver and, in claude-code, the manifest request have succeeded, and
\* the recipe file exists
MetadataObtained ==
    /\ pc = "done"
    /\ run > 0
    /\ pre # Missing
    /\ version # None
    /\ script = Claude => world.metaReq = "ok"

\* exactly the platform q is unresolved upstream
OnlyUnresolved(q) ==
    /\ q \in Plats(script)
    /\ world.st[q] # "ok"
    /\ \A p \in Plats(script) \ {q} : world.st[p] = "ok"

----------------------------------------------------------------------------
(* C3 *)

\* C3: in a run where exactly one platform is unresolved upstream, the run
\* completes and writes; the unresolved platform's URL and checksum are as they
\* were before the run, and every other block carries the new version's URL
\* and the digest resolved for its platform.
C3_PartialPlatform ==
    \A q \in Plats(script) :
        (MetadataObtained /\ OnlyUnresolved(q)) =>
            /\ Wrote /\ exit = 0
            /\ \A j \in UrlLines \cup ShaLines :
                  IF BlockPlat(script, pre, j) = q
                  THEN recipe[j] = pre[j]
                  ELSE /\ recipe[j].k = pre[j].k
                       /\ recipe[j].v = IF pre[j].k = "url" THEN NewUrlVersion
                                        ELSE sums[BlockPlat(script, pre, j)]

----------------------------------------------------------------------------
(* C4 *)

\* C4: after a run that wrote, the checksum of every block is the one it held
\* before the run or the digest resolved in this run for the block's own
\* platform, whatever the order of the blocks: no substitution for one
\* selector reaches the block of another.
C4_SelectorIsolation ==
    Wrote =>
        \A j \in ShaLines :
            /\ recipe[j].k = "sha"
            /\ \/ recipe[j].v = pre[j].v
               \/ recipe[j].v = sums[BlockPlat(script, pre, j)]

\* The same statement of the four scripts other than devpod.
C4_ExceptDevpod == script # Devpod => C4_SelectorIsolation

----------------------------------------------------------------------------
(* C5 *)

\* the entries of the first releases list that are prereleases with assets
Qualifying == {j \in 1..Len(world.rels) : world.rels[j].pre /\ world.rels[j].has}

\* a request the run cannot do without fails: the version or release request,
\* claude-code's manifest request, the second releases request of
\* devpod-prerelease when the first list has no prerelease with assets
RequiredRequestFails ==
    CASE script = Claude -> (arg = None /\ world.verReq = "fail") \/ world.metaReq = "fail"
      [] script = Devpod -> arg = None /\ world.verReq = "fail"
      [] script = Prerelease ->
           /\ arg = None
           /\ \/ world.verReq = "fail"
              \/ Qualifying = {} /\ world.metaReq = "fail"
      [] OTHER -> world.verReq = "fail"

\* C5: in every script a run whose recipe file is missing, or whose required
\* version, release or manifest request fails, ends with a non-zero exit code
\* and the recipe as it was before the run; a run writes the recipe at most
\* once and issues no request after it has written.
C5_FatalNeverWrites ==
    /\ writes <= 1
    /\ ~late
    /\ (pc # "done" /\ run > 0) => writes = 0
    /\ (pc = "done" /\ run > 0 /\ (pre = Missing \/ RequiredRequestFails)) =>
          /\ exit # 0
          /\ writes = 0
          /\ recipe = pre

\* a run on an existing recipe has ended on a failed required request
C5_Witness ==
    /\ pc = "done" /\ run > 0
    /\ pre # Missing
    /\ RequiredRequestFails
    /\ exit = 1

----------------------------------------------------------------------------
(* C6 *)

\* C6: in devpod, devpod-prerelease and ralph-orchestrator, a run that obtained
\* the release metadata and in which exactly one platform's asset is missing
\* or its download fails goes on, writes the recipe and exits with code 0.
C6_SinglePlatformNonFatal ==
    \A q \in Plats(script) :
        (script \in {Devpod, Prerelease, Ralph} /\ MetadataObtained /\ OnlyUnresolved(q)) =>
            Wrote /\ exit = 0

\* The same statement of devpod-prerelease alone.
C6_Prerelease == script = Prerelease => C6_SinglePlatformNonFatal

----------------------------------------------------------------------------
(* C7 *)

\* the version resolver of the current run has returned
VersionResolved == run > 0 /\ pc \in {"assets", "update", "done"}

\* C7 as stated: in every script the version resolved for an explicit
\* argument is that argument.
C7_ExplicitUnchanged ==
    (VersionResolved /\ arg # None /\ version # None) => version = arg

\* C7: in claude-code, devpod and devpod-prerelease an explicit argument is the
\* resolved version and no request is made to resolve it, so the resolution
\* cannot fail; in iterfzf it is the resolved version once the one by-version
\* index request has succeeded; in ralph-orchestrator the release tagged with
\* the argument (prefixed with "v" unless it starts with one) is requested and
\* the resolved version is the argument without its leading "v"s.
C7_ExplicitVersion ==
    (VersionResolved /\ arg # None) =>
        CASE script \in {Claude, Devpod, Prerelease} ->
               /\ version = arg
               /\ pc = "assets" => reqs = 0
          [] script = Iterfzf ->
               /\ version # None => version = arg
               /\ pc = "assets" => reqs = 1
          [] OTHER ->
               /\ version # None => version = LStrip(arg, "v")
               /\ pc = "assets" => reqs = 1

\* ralph-orchestrator has resolved an explicit "v"-prefixed argument
C7_Witness ==
    /\ script = Ralph
    /\ pc = "assets"
    /\ arg # None
    /\ version # None
    /\ version # arg

----------------------------------------------------------------------------
(* C8 *)

\* the resolver of devpod-prerelease has run without an explicit version
PrereleaseResolved == script = Prerelease /\ VersionResolved /\ arg = None

\* no version: the run has ended, exit code non-zero, recipe untouched
NoVersion == pc = "done" /\ version = None /\ exit # 0 /\ recipe = pre /\ writes = 0

\* the version and assets of a list entry
Selected(e) ==
    /\ version = e.v
    /\ (e.has /\ assets = AssetNames(Prerelease, world)) \/ (~e.has /\ assets = {})

\* C8 as stated: one releases list; the first prerelease with assets, else the
\* first entry of that list, else (empty list) no version.
C8_SingleList ==
    (PrereleaseResolved /\ world.verReq = "ok") =>
        IF Qualifying # {}
        THEN \E j \in Qualifying : (\A i \in Qualifying : j <= i) /\ Selected(world.rels[j])
        ELSE IF world.rels = <<>> THEN NoVersion
        ELSE Selected(world.rels[1])

\* C8: without an explicit version devpod-prerelease requests the releases
\* list and takes the first entry, in the order returned, that is a prerelease
\* with at least one asset; when there is none it requests the list a second
\* time and takes the first entry of that second answer whatever its flag and
\* assets; when either request fails or the second answer is empty there is no
\* version and the run exits non-zero with the recipe untouched.
C8_PrereleaseSelection ==
    PrereleaseResolved =>
        IF world.verReq = "fail" THEN NoVersion /\ reqs = 1
        ELSE IF Qualifying # {}
        THEN /\ \E j \in Qualifying : (\A i \in Qualifying : j <= i) /\ Selected(world.rels[j])
             /\ pc = "assets" => reqs = 1
        ELSE IF world.metaReq = "fail" \/ world.rels2 = <<>> THEN NoVersion /\ reqs = 2
        ELSE /\ Selected(world.rels2[1])
             /\ pc = "assets" => reqs = 2

\* the fallback has taken the first entry of a second answer that differs from
\* the first, and the run has written
C8_Witness ==
    /\ PrereleaseResolved
    /\ Wrote
    /\ Qualifying = {}
    /\ world.rels # <<>>
    /\ world.rels2 # world.rels
    /\ Selected(world.rels2[1])

\* the first of two prereleases with assets has been taken
C8_WitnessFirst ==
    /\ PrereleaseResolved
    /\ Wrote
    /\ Cardinality(Qualifying) = 2
    /\ Selected(world.rels[1])

----------------------------------------------------------------------------
(* C9 *)

\* C9: after update_recipe of devpod-prerelease has written for the resolved
\* version v, the version field is v with every hyphen replaced by an
\* underscore and every release-download URL carries v itself.
C9_DualForm ==
    (script = Prerelease /\ Wrote) =>
        /\ VersionField(recipe) = ReplaceChar(version, "-", "_")
        /\ \A j \in UrlLines : recipe[j].k = "url" /\ recipe[j].v = version

\* The same statement of runs that start from a recipe whose URLs carry the
\* version field with its underscores replaced by hyphens.
C9_FromConsistent ==
    (script = Prerelease /\ Wrote
        /\ \A j \in UrlLines : pre[j].v = ReplaceChar(VersionField(pre), "_", "-")) =>
        /\ VersionField(recipe) = ReplaceChar(version, "-", "_")
        /\ \A j \in UrlLines : recipe[j].k = "url" /\ recipe[j].v = version

----------------------------------------------------------------------------
(* C10 *)

\* the line b is the line a with at most its value rewritten
SameButValue(a, b) ==
    /\ b.k = a.k /\ b.s = a.s /\ b.p = a.p
    /\ CASE a.k \in {"ver", "sha"} -> b.t = a.t /\ b.n = a.n
         [] a.k = "url" -> b.n = a.n
         [] a.k = "num" -> b.t = a.t /\ b.v = a.v
         [] OTHER -> b = a

\* C10: in every script update_recipe changes nothing but the value of the
\* version field, of the build number and of the URLs and checksums of the
\* platform blocks: the blocks and their order are as before and every other
\* line is as it was.
C10_Frame ==
    Wrote =>
        /\ Len(recipe) = Len(pre)
        /\ \A j \in Indices(pre) : SameButValue(pre[j], recipe[j])

\* The same statement of claude-code, devpod-prerelease and ralph-orchestrator.
C10_ExceptDevpodIterfzf == script \in {Claude, Prerelease, Ralph} => C10_Frame

----------------------------------------------------------------------------
(* C11 *)

\* the version resolver of a run without an explicit version has returned or
\* has ended the run, and no other request of the run has been made yet
ResolverDone ==
    /\ run > 0
    /\ arg = None
    /\ pc = "assets" \/ (pc = "done" /\ version = None)

\* C11 as stated: in every script a run without an explicit version makes
\* exactly one request to resolve the version, the fallback path of
\* devpod-prerelease included.
C11_OneRequest == ResolverDone => reqs = 1

\* C11: a run without an explicit version makes exactly one request to resolve
\* the version, whether it succeeds or fails, except on the fallback path of
\* devpod-prerelease: when the releases list was obtained and holds no
\* prerelease with assets, the same endpoint is requested a second time, so
\* that path makes exactly two requests.  No failed request is repeated.
C11_RequestsForVersion ==
    ResolverDone =>
        reqs = IF script = Prerelease /\ world.verReq = "ok" /\ Qualifying = {}
               THEN 2 ELSE 1

\* devpod-prerelease has resolved a version on its fallback path
C11_Witness ==
    /\ ResolverDone
    /\ script = Prerelease
    /\ pc = "assets"
    /\ Qualifying = {}
    /\ reqs = 2

----------------------------------------------------------------------------
(* C12 *)

\* the release was obtained and lists none of the assets of PLATFORM_ASSETS
NoneListed ==
    /\ script = Ralph
    /\ run > 0
    /\ world.verReq = "ok"
    /\ \A p \in Plats(Ralph) : Asset(Ralph, p) \notin AssetNames(Ralph, world)

\* C12: a run of ralph-orchestrator whose release lists none of the four
\* assets never reaches update_recipe: it ends with a non-zero exit code and
\* the recipe as it was before the run.
C12_NothingResolved ==
    NoneListed =>
        /\ pc # "update"
        /\ writes = 0
        /\ recipe = pre
        /\ pc = "done" => exit # 0

\* such a run has ended, on a recipe that exists
C12_Witness ==
    /\ NoneListed
    /\ pc = "done"
    /\ version # None
    /\ pre # Missing
    /\ exit = 1

----------------------------------------------------------------------------
(* C13 *)

\* the block whose URL is line j of the recipe is as it was before the run
BlockKept(j) == recipe[j] = pre[j] /\ recipe[j + 1] = pre[j + 1]

\* the block whose URL is line j carries the new version's URL and the digest
\* resolved in this run for the block's platform
BlockMoved(j) ==
    /\ recipe[j].k = "url" /\ recipe[j].v = NewUrlVersion
    /\ recipe[j + 1].k = "sha"
    /\ recipe[j + 1].v = sums[BlockPlat(script, pre, j)]

\* C13: in every script, after a run that wrote the recipe, every platform
\* block either has the URL and the checksum it had before the run, or has the
\* new version's URL together with the digest resolved for its platform.
C13_UrlAndChecksumTogether ==
    Wrote => \A j \in UrlLines : BlockKept(j) \/ BlockMoved(j)

\* The same statement of the runs of claude-code and ralph-orchestrator in
\* which every platform resolves.
C13_AllResolved ==
    (script \in {Claude, Ralph} /\ \A p \in Plats(script) : world.st[p] = "ok") =>
        C13_UrlAndChecksumTogether

----------------------------------------------------------------------------
(* C14 *)

\* a run of devpod-prerelease follows a run that wrote the version hist.ver
\* into the version field and into every URL
AfterWrittenRun ==
    /\ script = Prerelease
    /\ run > 0
    /\ hist.ran /\ hist.exit = 0
    /\ pre # Missing
    /\ VersionField(pre) = PkgVersion(hist.ver)
    /\ \A j \in UrlLines : pre[j].v = hist.ver

\* C14: in devpod-prerelease the URL version that a run derives from the
\* version field the previous run wrote is the URL version the previous run
\* wrote, so a run that follows a written run and writes leaves every
\* release-download URL at its own version.
C14_RoundTrip ==
    AfterWrittenRun =>
        /\ UrlVersion(VersionField(pre)) = hist.ver
        /\ Wrote => \A j \in UrlLines : recipe[j].v = version

\* The same statement when the previous run's version has no underscore.
C14_NoUnderscore ==
    (\A i \in 1..Len(hist.ver) : hist.ver[i] # "_") => C14_RoundTrip

----------------------------------------------------------------------------
(* C15 *)

\* the line whose value re.search extracts as the current version
ReadIndex(doc) == MinOf({j \in Indices(doc) : IsVersionLine(doc[j])})

\* the line the package version substitution rewrites
WrittenIndex(doc) ==
    LET p == MinOf({j \in Indices(doc) : doc[j].k = "package"})
    IN  IF p = 0 THEN 0
        ELSE MinOf({j \in Indices(doc) : j > p /\ IsVersionLine(doc[j])})

\* the text update_recipe puts into the version field
WrittenVersion == IF script = Prerelease THEN PkgVersion(version) ELSE version

\* C15: in devpod, devpod-prerelease and iterfzf the version field that is
\* read as the current version is the one the version substitution rewrites,
\* so reading the current version from the recipe a run has written gives the
\* version that run wrote, also when a quoted version stands before the
\* package block.
C15_ReadIsWritten ==
    (script \in {Devpod, Prerelease, Iterfzf} /\ Wrote) =>
        /\ ReadIndex(pre) = WrittenIndex(pre)
        /\ CurrentVersion(recipe) = WrittenVersion

\* The same statement of recipes that begin with the package block.
C15_PackageFirst == (pre # Missing /\ pre[1].k = "package") => C15_ReadIsWritten

====
